---------------------------- MODULE Spec2Model ----------------------------
(***************************************************************************)
(* A model of the two vault tools of nexus-ai-chat-importer:               *)
(*                                                                         *)
(*   src/cli/migrate-artifacts.py   the Artifact Migrator                  *)
(*   src/cli/fix-artifact-links.py  the Link Rewriter                      *)
(*                                                                         *)
(* A Python str is a sequence of characters, each character a string of    *)
(* length one; a character that cannot be written in a TLA+ string is      *)
(* written as its code point ("U+1F3A8").  A file is a record with its     *)
(* lines; a directory is a function from entry names to files.  The        *)
(* filesystem calls follow POSIX: os.rename replaces an existing           *)
(* destination file.                                                       *)
(***************************************************************************)
EXTENDS Naturals, Integers, Sequences, FiniteSets, TLC

(***************************************************************************)
(* Characters and the str methods the tools use.                           *)
(***************************************************************************)
ASCII ==
    <<" ", "!", "\"", "#", "$", "%", "&", "'", "(", ")", "*", "+", ",", "-", ".", "/",
      "0", "1", "2", "3", "4", "5", "6", "7", "8", "9", ":", ";", "<", "=", ">", "?",
      "@", "A", "B", "C", "D", "E", "F", "G", "H", "I", "J", "K", "L", "M", "N", "O",
      "P", "Q", "R", "S", "T", "U", "V", "W", "X", "Y", "Z", "[", "\\", "]", "^", "_",
      "U+0060", "a", "b", "c", "d", "e", "f", "g", "h", "i", "j", "k", "l", "m", "n", "o",
      "p", "q", "r", "s", "t", "u", "v", "w", "x", "y", "z", "{", "|", "}", "~">>

Chars == {ASCII[i] : i \in 1..Len(ASCII)}
             \cup {"\t", "U+2018", "U+2019", "U+201C", "U+201D", "U+1F3A8"}

\* ord(c): Python orders str by code point.
CodePoint ==
    [c \in Chars |->
        CASE c = "\t" -> 9
          [] c = "U+2018" -> 8216
          [] c = "U+2019" -> 8217
          [] c = "U+201C" -> 8220
          [] c = "U+201D" -> 8221
          [] c = "U+1F3A8" -> 127912
          [] OTHER -> 31 + (CHOOSE i \in 1..Len(ASCII) : ASCII[i] = c)]

Digit == {"0", "1", "2", "3", "4", "5", "6", "7", "8", "9"}
LowerHex == Digit \cup {"a", "b", "c", "d", "e", "f"}
Letter == {c \in Chars : \/ CodePoint[c] \in 65..90
                         \/ CodePoint[c] \in 97..122}
\* \w and \s of the re module, on the characters above
WordChar == Letter \cup Digit \cup {"_"}
Whitespace == {" ", "\t"}

DigitValue(c) == CodePoint[c] - 48

\* a < b for two str
RECURSIVE StrLess(_, _)
StrLess(a, b) ==
    IF b = <<>> THEN FALSE
    ELSE IF a = <<>> THEN TRUE
    ELSE IF a[1] = b[1] THEN StrLess(Tail(a), Tail(b))
    ELSE CodePoint[a[1]] < CodePoint[b[1]]

\* sorted(names) for a set of distinct str
RECURSIVE sorted(_)
sorted(S) ==
    IF S = {} THEN <<>>
    ELSE LET m == CHOOSE x \in S : \A y \in S \ {x} : StrLess(x, y)
         IN  <<m>> \o sorted(S \ {m})

Drop(s, n) == SubSeq(s, n + 1, Len(s))
Take(s, n) == SubSeq(s, 1, n)

\* s.startswith(p), s.endswith(p)
StartsWith(s, p) == Len(s) >= Len(p) /\ Take(s, Len(p)) = p
EndsWith(s, p) == Len(s) >= Len(p) /\ Drop(s, Len(s) - Len(p)) = p

\* s.find(p, start) counted from 1: the first place at or after start where
\* p begins, 0 when there is none (p is never empty here)
Find(s, p, start) ==
    LET hits == {i \in start..(Len(s) - Len(p) + 1) :
                    SubSeq(s, i, i + Len(p) - 1) = p}
    IN  IF hits = {} THEN 0 ELSE CHOOSE i \in hits : \A j \in hits : i <= j

\* p in s
Contains(s, p) == Find(s, p, 1) # 0

\* s.replace(old, new): left to right, occurrences that do not overlap;
\* i is where the first one begins
RECURSIVE ReplaceFrom(_, _, _, _)
ReplaceFrom(s, old, new, i) ==
    IF i = 0 THEN s
    ELSE Take(s, i - 1) \o new
             \o ReplaceFrom(Drop(s, i - 1 + Len(old)), old, new,
                             Find(Drop(s, i - 1 + Len(old)), old, 1))
Replace(s, old, new) == ReplaceFrom(s, old, new, Find(s, old, 1))

\* s.count(p); i is where the first occurrence begins
RECURSIVE CountFrom(_, _, _)
CountFrom(s, p, i) ==
    IF i = 0 THEN 0
    ELSE 1 + CountFrom(Drop(s, i - 1 + Len(p)), p,
                       Find(Drop(s, i - 1 + Len(p)), p, 1))
Count(s, p) == CountFrom(s, p, Find(s, p, 1))

\* s.strip(chars); s.strip() is Strip(s, Whitespace)
RECURSIVE LStrip(_, _)
LStrip(s, cs) == IF s # <<>> /\ s[1] \in cs THEN LStrip(Tail(s), cs) ELSE s
RECURSIVE RStrip(_, _)
RStrip(s, cs) ==
    IF s # <<>> /\ s[Len(s)] \in cs THEN RStrip(Take(s, Len(s) - 1), cs) ELSE s
Strip(s, cs) == RStrip(LStrip(s, cs), cs)

\* s.split(sep) for a one-character sep
RECURSIVE Split(_, _)
Split(s, sep) ==
    IF \E i \in 1..Len(s) : s[i] = sep
    THEN LET i == CHOOSE k \in 1..Len(s) :
                      s[k] = sep /\ \A j \in 1..(k - 1) : s[j] # sep
         IN  <<Take(s, i - 1)>> \o Split(Drop(s, i), sep)
    ELSE <<s>>

\* d.get(k, default) for a dict d
Get(d, k, default) == IF k \in DOMAIN d THEN d[k] ELSE default
\* d[k] = v
Put(d, k, v) == [x \in DOMAIN d \cup {k} |-> IF x = k THEN v ELSE d[x]]
\* a dict without key k
Without(d, k) == [x \in DOMAIN d \ {k} |-> d[x]]
EmptyDict == <<>>

(***************************************************************************)
(* String constants of the two sources.                                    *)
(***************************************************************************)
SENTINEL ==
    <<"-", "-", "-">>
KEY_CONVERSATION_ID ==
    <<"c", "o", "n", "v", "e", "r", "s", "a", "t", "i", "o", "n", "_", "i", "d">>
KEY_ALIASES ==
    <<"a", "l", "i", "a", "s", "e", "s">>
KEY_CREATE_TIME ==
    <<"c", "r", "e", "a", "t", "e", "_", "t", "i", "m", "e">>
KEY_VERSION_NUMBER ==
    <<"v", "e", "r", "s", "i", "o", "n", "_", "n", "u", "m", "b", "e", "r">>
MD_SUFFIX ==
    <<".", "m", "d">>
DEFAULT_VERSION ==
    <<"1">>
DATE_SEP ==
    <<" ", "-", " ">>
VERSION_SEP ==
    <<" ", "v">>
ARTIFACTS_MARK ==
    <<"a", "r", "t", "i", "f", "a", "c", "t", "s", "/">>
LINK_PREFIX ==
    <<"A", "I", "/", "A", "t", "t", "a", "c", "h", "m", "e", "n", "t", "s", "/", "c",
      "l", "a", "u", "d", "e", "/", "a", "r", "t", "i", "f", "a", "c", "t", "s", "/">>
LEGACY_MARKER ==
    <<"U+1F3A8", " ", "[", "[">>
EMBED_MARKER ==
    <<"!", "[", "[">>

(***************************************************************************)
(* Files.  A file is [readable, lines]: its lines without the line ends;   *)
(* a file that cannot be opened or decoded has readable = FALSE.           *)
(***************************************************************************)
File(lines) == [readable |-> TRUE, lines |-> lines]
Unreadable == [readable |-> FALSE, lines |-> <<>>]

\* re.match(r"^(\w+):\s*(.+)$", stripped): <<group(1), group(2)>>, or <<>>
\* when the line does not match.  \s* is greedy and gives back one
\* character when nothing else is left for (.+).
\* group(2), from what follows the colon and what \s* leaves of it
MatchValue(rest, left) == IF left # <<>> THEN left ELSE <<rest[Len(rest)]>>
\* the groups, from group(1) and what follows the colon
MatchGroups(key, rest) ==
    IF rest = <<>> THEN <<>>
    ELSE <<key, MatchValue(rest, LStrip(rest, Whitespace))>>
\* the match, from the line and the length k of its longest \w prefix
MatchKey(stripped, k) ==
    IF k = 0 \/ k >= Len(stripped) THEN <<>>
    ELSE IF stripped[k + 1] # ":" THEN <<>>
    ELSE MatchGroups(Take(stripped, k), Drop(stripped, k + 1))
MatchKeyValue(stripped) ==
    MatchKey(stripped, Len(stripped) - Len(LStrip(stripped, WordChar)))

\* "if m: fm[m.group(1)] = m.group(2)"
StoreMatch(fm, m) == IF m # <<>> THEN Put(fm, m[1], m[2]) ELSE fm

RECURSIVE ScanFrontmatter(_, _, _)
ScanFrontmatter(lines, in_fm, fm) ==
    IF lines = <<>> THEN fm
    ELSE IF Head(lines) = SENTINEL
         THEN IF in_fm THEN fm ELSE ScanFrontmatter(Tail(lines), TRUE, fm)
         ELSE IF ~in_fm THEN ScanFrontmatter(Tail(lines), FALSE, fm)
         ELSE ScanFrontmatter(Tail(lines), TRUE,
                              StoreMatch(fm, MatchKeyValue(Head(lines))))

\* parse_frontmatter(filepath), of both sources
parse_frontmatter(file) ==
    IF ~file.readable THEN EmptyDict
    ELSE ScanFrontmatter(file.lines, FALSE, EmptyDict)

Quotes == {"'", "\""}

\* content[1:] if content.startswith("["), content[:-1] if content.endswith("]")
DropOpening(content) ==
    IF StartsWith(content, <<"[">>) THEN Tail(content) ELSE content
DropClosing(content) ==
    IF EndsWith(content, <<"]">>) THEN Take(content, Len(content) - 1)
    ELSE content

\* p.strip().strip("'\"").strip()
Unquote(p) == Strip(Strip(Strip(p, Whitespace), Quotes), Whitespace)

extract_first_alias(aliases_str) ==
    Unquote(Split(DropClosing(DropOpening(Strip(aliases_str, Whitespace))),
                  ",")[1])

\* parts[1] if len(parts) > 1 else "", from content.split(",")
SecondPart(split) == IF Len(split) > 1 THEN Unquote(split[2]) ELSE <<>>

extract_second_alias(aliases_str) ==
    SecondPart(Split(Strip(Strip(aliases_str, Whitespace), {"[", "]"}), ","))

\* the character class of sanitize's first re.sub
ForbiddenChars ==
    {"/", "\\", ":", "*", "?", "\"", "<", ">", "|", "#", "^", "[", "]", ".", "'"}

\* re.sub(r"\s+", " ", result)
RECURSIVE CollapseWhitespace(_)
CollapseWhitespace(s) ==
    IF s = <<>> THEN <<>>
    ELSE IF s[1] \in Whitespace
         THEN <<" ">> \o CollapseWhitespace(LStrip(s, Whitespace))
         ELSE <<s[1]>> \o CollapseWhitespace(Tail(s))

\* the first re.sub of sanitize
ReplaceForbidden(name) ==
    [i \in 1..Len(name) |-> IF name[i] \in ForbiddenChars THEN "_" ELSE name[i]]

sanitize(name) == Strip(CollapseWhitespace(ReplaceForbidden(name)), Whitespace)

\* \d{4}-\d{2}-\d{2} at the start of s
DateShape(s) ==
    /\ Len(s) >= 10
    /\ \A i \in 1..10 : IF i \in {5, 8} THEN s[i] = "-" ELSE s[i] \in Digit

date_prefix(iso_str) ==
    IF DateShape(iso_str) /\ Len(iso_str) >= 11 /\ iso_str[11] = "T"
    THEN Take(iso_str, 10)
    ELSE <<>>

\* uuid_re.match(entry)
uuid_re(entry) ==
    /\ Len(entry) = 36
    /\ \A i \in 1..36 : IF i \in {9, 14, 19, 24} THEN entry[i] = "-"
                        ELSE entry[i] \in LowerHex

\* date_prefix_re.match(entry)
date_prefix_re(entry) ==
    DateShape(entry) /\ StartsWith(Drop(entry, 10), DATE_SEP)

\* int(art_version) > 1, False when int() raises ValueError.  int() takes
\* surrounding whitespace, one sign, and digits with single underscores
\* between them.
Unsigned(t) == IF t # <<>> /\ t[1] \in {"+", "-"} THEN Tail(t) ELSE t
IsDigits(d) ==
    /\ d # <<>>
    /\ d[1] \in Digit /\ d[Len(d)] \in Digit
    /\ \A i \in 1..Len(d) : d[i] \in Digit \cup {"_"}
    /\ \A i \in 1..(Len(d) - 1) : ~(d[i] = "_" /\ d[i + 1] = "_")
IsIntLiteral(s) == IsDigits(Unsigned(Strip(s, Whitespace)))

RECURSIVE DigitsValue(_, _)
DigitsValue(d, acc) ==
    IF d = <<>> THEN acc
    ELSE IF d[1] = "_" THEN DigitsValue(Tail(d), acc)
         ELSE DigitsValue(Tail(d), 10 * acc + DigitValue(d[1]))

Signed(t, value) == IF t[1] = "-" THEN 0 - value ELSE value
IntOf(s) ==
    Signed(Strip(s, Whitespace), DigitsValue(Unsigned(Strip(s, Whitespace)), 0))

VersionAboveOne(art_version) ==
    IF IsIntLiteral(art_version) THEN IntOf(art_version) > 1 ELSE FALSE

\* build_conversation_index: the two dicts, filled in the order os.walk
\* yields the files (walk, a sequence of file names of the directory convs)
\* "if cid and aliases: titles[cid] = aliases; dates[cid] = ctime"
IndexEntry(index, cid, aliases, ctime) ==
    IF cid = <<>> \/ aliases = <<>> THEN index
    ELSE [titles |-> Put(index.titles, cid, aliases),
          dates |-> Put(index.dates, cid, ctime)]

IndexFrontmatter(index, fm) ==
    IndexEntry(index, Get(fm, KEY_CONVERSATION_ID, <<>>),
               Get(fm, KEY_ALIASES, <<>>), Get(fm, KEY_CREATE_TIME, <<>>))

RECURSIVE IndexFiles(_, _, _)
IndexFiles(convs, walk, index) ==
    IF walk = <<>> THEN index
    ELSE IF ~EndsWith(Head(walk), MD_SUFFIX)
         THEN IndexFiles(convs, Tail(walk), index)
         ELSE IndexFiles(convs, Tail(walk),
                  IndexFrontmatter(index, parse_frontmatter(convs[Head(walk)])))

build_conversation_index(convs, walk) ==
    IndexFiles(convs, walk, [titles |-> EmptyDict, dates |-> EmptyDict])

(***************************************************************************)
(* migrate-artifacts.py: the steps of main() as functions of the           *)
(* artifacts directory (tree: folder name -> directory) and of one         *)
(* directory (dir: entry name -> file).  A local variable of main() that   *)
(* later lines read is a parameter of the operator for those lines.        *)
(***************************************************************************)

\* f"{cdp} - {safe}" if cdp else safe, for folders and for files
WithDate(cdp, safe) == IF cdp # <<>> THEN cdp \o DATE_SEP \o safe ELSE safe

\* new_foldername of a folder whose conversation was found
NewFolderName(conv_title, conv_date) ==
    WithDate(date_prefix(conv_date), sanitize(conv_title))

\* art_title, from the aliases field: "" when there is none
FirstAlias(aliases) ==
    IF aliases # <<>> THEN extract_first_alias(aliases) ELSE <<>>
ArtifactTitle(fm) == FirstAlias(Get(fm, KEY_ALIASES, <<>>))

\* f"{safe_art}_v{art_version}" if int(art_version) > 1
WithVersion(safe_art, art_version) ==
    IF VersionAboveOne(art_version) THEN safe_art \o VERSION_SEP \o art_version
    ELSE safe_art

\* new_name of an artifact file, from its frontmatter and its title
NewArtifactName(fm, art_title) ==
    WithDate(date_prefix(Get(fm, KEY_CREATE_TIME, <<>>)),
             WithVersion(sanitize(art_title),
                         Get(fm, KEY_VERSION_NUMBER, DEFAULT_VERSION)))
        \o MD_SUFFIX

\* os.rename(src, dst) inside one directory: dst is replaced when it exists
RenameEntry(dir, src, dst) ==
    [n \in (DOMAIN dir \ {src}) \cup {dst} |-> IF n = dst THEN dir[src] ELSE dir[n]]

\* RenameTo without the test of dry_run: a preview that renames
RenameToAlways(dir, art_fname, new_name, dry) ==
    IF art_fname = new_name
    THEN [dir |-> dir, skipped |-> 0, file_renames |-> 0]
    ELSE [dir |-> RenameEntry(dir, art_fname, new_name),
          skipped |-> 0, file_renames |-> 1]

\* "if art_fname != new_name": the directory afterwards and what the file
\* adds to skipped and file_renames
RenameTo(dir, art_fname, new_name, dry) ==
    IF art_fname = new_name
    THEN [dir |-> dir, skipped |-> 0, file_renames |-> 0]
    ELSE [dir |-> IF dry THEN dir ELSE RenameEntry(dir, art_fname, new_name),
          skipped |-> 0, file_renames |-> 1]

\* "if not art_title: skipped += 1; continue"
RenameTitled(dir, art_fname, fm, art_title, dry) ==
    IF art_title = <<>>
    THEN [dir |-> dir, skipped |-> 1, file_renames |-> 0]
    ELSE RenameTo(dir, art_fname, NewArtifactName(fm, art_title), dry)

RenameParsed(dir, art_fname, fm, dry) ==
    RenameTitled(dir, art_fname, fm, ArtifactTitle(fm), dry)

\* the body of "for art_fname in sorted(os.listdir(folder))" for one file.
\* A name of the listing that is gone reads as a file that cannot be opened.
RenameArtifact(dir, art_fname, dry) ==
    IF ~EndsWith(art_fname, MD_SUFFIX)
    THEN [dir |-> dir, skipped |-> 0, file_renames |-> 0]
    ELSE RenameParsed(dir, art_fname,
                      parse_frontmatter(Get(dir, art_fname, Unreadable)), dry)

\* MergeEntry without "if not os.path.exists(dst)": a move that replaces
MergeEntryOverwriting(tree, folder, new_folder, f) ==
    [tree EXCEPT ![new_folder] = Put(tree[new_folder], f, tree[folder][f]),
                 ![folder] = Without(tree[folder], f)]

\* one pass of the merge loop: shutil.move(src, dst) unless dst exists
MergeEntry(tree, folder, new_folder, f) ==
    IF f \in DOMAIN tree[new_folder]
    THEN tree
    ELSE [tree EXCEPT ![new_folder] = Put(tree[new_folder], f, tree[folder][f]),
                      ![folder] = Without(tree[folder], f)]

\* os.rmdir(folder), OSError passed over: only an empty directory goes
RemoveIfEmpty(tree, folder) ==
    IF DOMAIN tree[folder] = {} THEN Without(tree, folder) ELSE tree

\* os.rename(folder, new_folder) when new_folder does not exist
RenameFolder(tree, folder, new_folder) ==
    [n \in (DOMAIN tree \ {folder}) \cup {new_folder} |->
        IF n = new_folder THEN tree[folder] ELSE tree[n]]

(***************************************************************************)
(* A whole run of main() without --dry-run that nothing interrupts: the    *)
(* artifacts directory it leaves.                                          *)
(***************************************************************************)
RECURSIVE RenameArtifacts(_, _)
RenameArtifacts(dir, art_files) ==
    IF art_files = <<>> THEN dir
    ELSE RenameArtifacts(RenameArtifact(dir, Head(art_files), FALSE).dir,
                         Tail(art_files))

\* the merge loop; a file is moved or stays whatever the order of the listing
RECURSIVE MergeEntries(_, _, _, _)
MergeEntries(tree, folder, new_folder, listing) ==
    IF listing = <<>> THEN tree
    ELSE MergeEntries(MergeEntry(tree, folder, new_folder, Head(listing)),
                      folder, new_folder, Tail(listing))

MoveFolder(tree, folder, new_folder) ==
    IF folder = new_folder THEN tree
    ELSE IF new_folder \in DOMAIN tree
    THEN RemoveIfEmpty(MergeEntries(tree, folder, new_folder,
                                    sorted(DOMAIN tree[folder])), folder)
    ELSE RenameFolder(tree, folder, new_folder)

\* the folder loop's body for a folder whose conversation has conv_title
MigrateTitled(tree, entry, conv_title, conv_date) ==
    IF conv_title = <<>> THEN tree
    ELSE MoveFolder([tree EXCEPT ![entry] =
                        RenameArtifacts(tree[entry], sorted(DOMAIN tree[entry]))],
                    entry, NewFolderName(conv_title, conv_date))

MigrateFolder(tree, entry, index) ==
    IF entry \notin DOMAIN tree THEN tree
    ELSE IF date_prefix_re(entry) \/ ~uuid_re(entry) THEN tree
    ELSE MigrateTitled(tree, entry, Get(index.titles, entry, <<>>),
                       Get(index.dates, entry, <<>>))

RECURSIVE MigrateFolders(_, _, _)
MigrateFolders(tree, entries, index) ==
    IF entries = <<>> THEN tree
    ELSE MigrateFolders(MigrateFolder(tree, Head(entries), index),
                        Tail(entries), index)

MigrateAll(tree, index) == MigrateFolders(tree, sorted(DOMAIN tree), index)

(***************************************************************************)
(* fix-artifact-links.py: the steps of main().  link_map is a dict, kept   *)
(* as the sequence of its <<old_link, new_link>> items in insertion order. *)
(* A file's content is one str in the source and its lines here: no        *)
(* old_link and no marker holds a line end, so replacing, counting and     *)
(* searching line by line is replacing, counting and searching the content.*)
(***************************************************************************)

\* link_map[old_link] = new_link: a key keeps the place of its first insertion
SetItem(link_map, old_link, new_link) ==
    IF \E i \in 1..Len(link_map) : link_map[i][1] = old_link
    THEN [i \in 1..Len(link_map) |->
             IF link_map[i][1] = old_link THEN <<old_link, new_link>>
             ELSE link_map[i]]
    ELSE Append(link_map, <<old_link, new_link>>)

\* "if old_link != new_link: link_map[old_link] = new_link"
MapLink(link_map, old_link, new_link) ==
    IF old_link # new_link THEN SetItem(link_map, old_link, new_link)
    ELSE link_map

\* "if not old_stem: continue", then the two link paths
MapStem(link_map, folder_name, fname, conv_id, old_stem) ==
    IF old_stem = <<>> THEN link_map
    ELSE MapLink(link_map,
                 LINK_PREFIX \o conv_id \o <<"/">> \o old_stem,
                 LINK_PREFIX \o folder_name \o <<"/">>
                     \o Take(fname, Len(fname) - 3))

\* "if not conv_id or not aliases: continue"
MapAliases(link_map, folder_name, fname, conv_id, aliases) ==
    IF conv_id = <<>> \/ aliases = <<>> THEN link_map
    ELSE MapStem(link_map, folder_name, fname, conv_id,
                 extract_second_alias(aliases))

MapFrontmatter(link_map, folder_name, fname, fm) ==
    MapAliases(link_map, folder_name, fname,
               Get(fm, KEY_CONVERSATION_ID, <<>>), Get(fm, KEY_ALIASES, <<>>))

\* the body of the index loop for one file of folder folder_name
IndexArtifact(link_map, folder_name, fname, file) ==
    IF ~EndsWith(fname, MD_SUFFIX) THEN link_map
    ELSE MapFrontmatter(link_map, folder_name, fname, parse_frontmatter(file))

InContent(lines, p) == \E i \in 1..Len(lines) : Contains(lines[i], p)
ReplaceInContent(lines, old, new) ==
    [i \in 1..Len(lines) |-> Replace(lines[i], old, new)]
RECURSIVE CountInContent(_, _)
CountInContent(lines, p) ==
    IF lines = <<>> THEN 0
    ELSE Count(Head(lines), p) + CountInContent(Tail(lines), p)

\* "file_changes += new_content.count(new_path) - content.count(new_path)"
\* with the counters as they are after the replacement
Replaced(content, replaced, file_changes, new_path) ==
    [new_content |-> replaced,
     file_changes |-> file_changes + CountInContent(replaced, new_path)
                                   - CountInContent(content, new_path)]

\* one pass of "for old_path, new_path in link_map.items()":
\* [new_content, file_changes] after it
ApplyLink(content, new_content, file_changes, old_path, new_path) ==
    IF InContent(new_content, old_path)
    THEN Replaced(content, ReplaceInContent(new_content, old_path, new_path),
                  file_changes, new_path)
    ELSE [new_content |-> new_content, file_changes |-> file_changes]

\* the loop over link_map.items(), from [new_content, file_changes]
RECURSIVE ApplyLinkMap(_, _, _)
ApplyLinkMap(content, done, items) ==
    IF items = <<>> THEN done
    ELSE ApplyLinkMap(content,
                      ApplyLink(content, done.new_content, done.file_changes,
                                Head(items)[1], Head(items)[2]),
                      Tail(items))

\* NormalizeMarkers without the replacement: the markers stay
KeepMarkers(new_content) == new_content

\* the legacy marker to "![[" step of the conversation pass
NormalizeMarkers(new_content) ==
    ReplaceInContent(new_content, LEGACY_MARKER, EMBED_MARKER)

\* "if (legacy marker) in new_content: ..." after the loop
ReplaceMarkers(done) ==
    IF InContent(done.new_content, LEGACY_MARKER)
    THEN [new_content |-> NormalizeMarkers(done.new_content),
          file_changes |-> done.file_changes
              + CountInContent(done.new_content, LEGACY_MARKER)]
    ELSE done

\* the conversation pass for one file that was read:
\* [new_content, file_changes]; new_content is the content when the file is
\* passed over
RewriteConversation(content, link_map) ==
    IF ~InContent(content, ARTIFACTS_MARK)
    THEN [new_content |-> content, file_changes |-> 0]
    ELSE ReplaceMarkers(
             ApplyLinkMap(content, [new_content |-> content, file_changes |-> 0],
                          link_map))

\* the artifact pass for one file that was read: new_content
RewriteArtifact(content, link_map) ==
    IF ~InContent(content, ARTIFACTS_MARK) THEN content
    ELSE ApplyLinkMap(content, [new_content |-> content, file_changes |-> 0],
                      link_map).new_content

\* "if new_content != content": the file afterwards
WriteBack(file, new_content, dry) ==
    IF new_content # file.lines /\ ~dry THEN File(new_content) ELSE file

(***************************************************************************)
(* The vaults the runs start from: names, field values, files and          *)
(* directories.                                                            *)
(***************************************************************************)
\* conversation ids
U1 ==
    <<"1", "1", "1", "1", "1", "1", "1", "1", "-", "1", "1", "1", "1", "-", "1", "1",
      "1", "1", "-", "1", "1", "1", "1", "-", "1", "1", "1", "1", "1", "1", "1", "1",
      "1", "1", "1", "1">>
U2 ==
    <<"2", "2", "2", "2", "2", "2", "2", "2", "-", "2", "2", "2", "2", "-", "2", "2",
      "2", "2", "-", "2", "2", "2", "2", "-", "2", "2", "2", "2", "2", "2", "2", "2",
      "2", "2", "2", "2">>
U3 ==
    <<"3", "3", "3", "3", "3", "3", "3", "3", "-", "3", "3", "3", "3", "-", "3", "3",
      "3", "3", "-", "3", "3", "3", "3", "-", "3", "3", "3", "3", "3", "3", "3", "3",
      "3", "3", "3", "3">>
\* entry names
DRAFT_MD ==
    <<"d", "r", "a", "f", "t", ".", "m", "d">>
A_MD ==
    <<"a", ".", "m", "d">>
B_MD ==
    <<"b", ".", "m", "d">>
N_MD ==
    <<"n", ".", "m", "d">>
M_MD ==
    <<"m", ".", "m", "d">>
NOTES_TXT ==
    <<"n", "o", "t", "e", "s", ".", "t", "x", "t">>
BROKEN_MD ==
    <<"b", "r", "o", "k", "e", "n", ".", "m", "d">>
DRAFT_V2_MD ==
    <<"d", "r", "a", "f", "t", "_", "v", "2", ".", "m", "d">>
T_ONLY_MD ==
    <<"T", ".", "m", "d">>
T_MD ==
    <<"2", "0", "2", "4", "-", "0", "1", "-", "0", "2", " ", "-", " ", "T", ".", "m",
      "d">>
T_V10_MD ==
    <<"2", "0", "2", "4", "-", "0", "1", "-", "0", "2", " ", "-", " ", "T", " ", "v",
      "1", "0", ".", "m", "d">>
DATED_FOLDER ==
    <<"2", "0", "2", "4", "-", "0", "1", "-", "0", "1", " ", "-", " ", "C", "o", "n",
      "v">>
MISC_FOLDER ==
    <<"m", "i", "s", "c">>
CONV1_MD ==
    <<"c", "o", "n", "v", "1", ".", "m", "d">>
CONV2_MD ==
    <<"c", "o", "n", "v", "2", ".", "m", "d">>
CONV3_MD ==
    <<"c", "o", "n", "v", "3", ".", "m", "d">>
CHAT_MD ==
    <<"c", "h", "a", "t", ".", "m", "d">>
PLAIN_MD ==
    <<"p", "l", "a", "i", "n", ".", "m", "d">>
\* values of aliases
MY_CONVERSATION ==
    <<"[", "M", "y", " ", "C", "o", "n", "v", "e", "r", "s", "a", "t", "i", "o", "n",
      "]">>
MY_TITLE_DRAFT ==
    <<"[", "M", "y", " ", "T", "i", "t", "l", "e", ",", " ", "d", "r", "a", "f", "t",
      "]">>
CONV ==
    <<"C", "o", "n", "v">>
OTHER_CHAT ==
    <<"\"", "O", "t", "h", "e", "r", ":", " ", "c", "h", "a", "t", "\"">>
T_N ==
    <<"[", "T", ",", " ", "n", "]">>
T_DRAFT ==
    <<"[", "T", ",", " ", "d", "r", "a", "f", "t", "]">>
T_N_V1 ==
    <<"[", "T", ",", " ", "n", "_", "v", "1", "]">>
T_N_V10 ==
    <<"[", "T", ",", " ", "n", "_", "v", "1", "0", "]">>
\* values of create_time
JAN_1 ==
    <<"2", "0", "2", "4", "-", "0", "1", "-", "0", "1", "T", "0", "0", ":", "0", "0",
      ":", "0", "0", "Z">>
JAN_2 ==
    <<"2", "0", "2", "4", "-", "0", "1", "-", "0", "2", "T", "0", "0", ":", "0", "0",
      ":", "0", "0", "Z">>
JAN_3 ==
    <<"2", "0", "2", "4", "-", "0", "1", "-", "0", "3", "T", "1", "2", ":", "3", "0",
      ":", "0", "0", "Z">>
UNDATED ==
    <<"u", "n", "k", "n", "o", "w", "n">>
\* legacy file name stems
STEM_DRAFT ==
    <<"d", "r", "a", "f", "t">>
STEM_N_V1 ==
    <<"n", "_", "v", "1">>
STEM_N_V10 ==
    <<"n", "_", "v", "1", "0">>
\* link paths that name no artifact
FOO ==
    <<"F", "o", "o">>
ARTIFACTS_FOO ==
    <<"a", "r", "t", "i", "f", "a", "c", "t", "s", "/", "F", "o", "o">>
\* the names the end-to-end scenario expects
END_TO_END_FOLDER ==
    <<"2", "0", "2", "4", "-", "0", "1", "-", "0", "1", " ", "-", " ", "M", "y", " ",
      "C", "o", "n", "v", "e", "r", "s", "a", "t", "i", "o", "n">>
END_TO_END_FILE ==
    <<"2", "0", "2", "4", "-", "0", "1", "-", "0", "2", " ", "-", " ", "M", "y", " ",
      "T", "i", "t", "l", "e", " ", "v", "2", ".", "m", "d">>

Field(key, value) == key \o <<":", " ">> \o value
Frontmatter(fields) == <<SENTINEL>> \o fields \o <<SENTINEL>>
WikiLink(path) == <<"[", "[">> \o path \o <<"]", "]">>
Legacy(path) == LEGACY_MARKER \o path \o <<"]", "]">>
Embed(path) == EMBED_MARKER \o path \o <<"]", "]">>
\* the link path of an artifact before and after the migration
LinkPath(folder_name, stem) == LINK_PREFIX \o folder_name \o <<"/">> \o stem
Stem(fname) == Take(fname, Len(fname) - 3)

\* artifact files
DraftFile ==
    File(Frontmatter(<<Field(KEY_CONVERSATION_ID, U1),
                       Field(KEY_ALIASES, MY_TITLE_DRAFT),
                       Field(KEY_CREATE_TIME, JAN_2),
                       Field(KEY_VERSION_NUMBER, <<"2">>)>>))
UntitledFile == File(<<FOO>>)
TitledAsA ==
    File(Frontmatter(<<Field(KEY_CONVERSATION_ID, U1),
                       Field(KEY_ALIASES, <<"a">>)>>))
NotesFile == File(<<STEM_DRAFT>>)
TitledOne ==
    File(Frontmatter(<<Field(KEY_CONVERSATION_ID, U1), Field(KEY_ALIASES, T_N)>>)
         \o <<<<"o", "n", "e">>>>)
TitledTwo ==
    File(Frontmatter(<<Field(KEY_CONVERSATION_ID, U2), Field(KEY_ALIASES, T_N),
                       Field(KEY_VERSION_NUMBER, <<"x">>)>>)
         \o <<<<"t", "w", "o">>>>)
DraftV2File ==
    File(Frontmatter(<<Field(KEY_CONVERSATION_ID, U1),
                       Field(KEY_ALIASES, T_DRAFT)>>)
         \o <<WikiLink(LinkPath(U1, STEM_DRAFT))>>)
VersionOne ==
    File(Frontmatter(<<Field(KEY_CONVERSATION_ID, U1),
                       Field(KEY_ALIASES, T_N_V1),
                       Field(KEY_CREATE_TIME, JAN_2)>>)
         \o <<Legacy(ARTIFACTS_FOO)>>)
VersionTen ==
    File(Frontmatter(<<Field(KEY_CONVERSATION_ID, U1),
                       Field(KEY_ALIASES, T_N_V10),
                       Field(KEY_CREATE_TIME, JAN_2),
                       Field(KEY_VERSION_NUMBER, <<"1", "0">>)>>)
         \o <<WikiLink(LinkPath(U1, STEM_N_V1))>>)

\* conversation files
ConvEndToEnd ==
    File(Frontmatter(<<Field(KEY_CONVERSATION_ID, U1),
                       Field(KEY_ALIASES, MY_CONVERSATION),
                       Field(KEY_CREATE_TIME, JAN_1)>>)
         \o <<Legacy(LinkPath(U1, STEM_DRAFT))>>)
ConvOne ==
    File(Frontmatter(<<Field(KEY_CONVERSATION_ID, U1), Field(KEY_ALIASES, CONV),
                       Field(KEY_CREATE_TIME, JAN_1)>>))
ConvTwo ==
    File(Frontmatter(<<Field(KEY_CONVERSATION_ID, U2), Field(KEY_ALIASES, CONV),
                       Field(KEY_CREATE_TIME, JAN_1)>>))
ConvThree ==
    File(Frontmatter(<<Field(KEY_CONVERSATION_ID, U3),
                       Field(KEY_ALIASES, OTHER_CHAT),
                       Field(KEY_CREATE_TIME, JAN_3)>>))
\* a conversation whose title is the id of another one, and without a date
ConvNamedAsTwo ==
    File(Frontmatter(<<Field(KEY_CONVERSATION_ID, U1), Field(KEY_ALIASES, U2),
                       Field(KEY_CREATE_TIME, UNDATED)>>))
ChatFile ==
    File(<<WikiLink(LinkPath(U1, STEM_N_V1)) \o <<" ">>
               \o WikiLink(LinkPath(U1, STEM_N_V10)),
           Legacy(LinkPath(U1, STEM_DRAFT))>>)
PlainFile == File(<<Legacy(FOO)>>)
EmbedFile == File(<<Legacy(ARTIFACTS_FOO)>>)

\* artifacts directories
TreeEndToEnd == (U1 :> (DRAFT_MD :> DraftFile))
TreeUntitled ==
    (U1 :> (A_MD :> UntitledFile @@ B_MD :> TitledAsA @@ NOTES_TXT :> NotesFile
            @@ BROKEN_MD :> Unreadable))
TreeSameTarget ==
    (U1 :> (N_MD :> TitledOne)) @@ (U2 :> (N_MD :> TitledTwo @@ M_MD :> UntitledFile))
TreeChain == (U1 :> (DRAFT_MD :> DraftFile)) @@ (U3 :> (M_MD :> UntitledFile))
TreeMigrated ==
    (DATED_FOLDER :> (T_MD :> VersionOne @@ T_V10_MD :> VersionTen))
        @@ (MISC_FOLDER :> (NOTES_TXT :> NotesFile))
TreeUnmigrated == (U1 :> (DRAFT_V2_MD :> DraftV2File))
ArtifactTrees ==
    {TreeEndToEnd, TreeUntitled, TreeSameTarget, TreeChain, TreeMigrated,
     TreeUnmigrated}

\* conversation directories, each with the order os.walk yields its files in
DirEndToEnd == [convs |-> (CONV1_MD :> ConvEndToEnd), walk |-> <<CONV1_MD>>]
DirSameTitle ==
    [convs |-> (CONV1_MD :> ConvOne @@ CONV2_MD :> ConvTwo),
     walk |-> <<CONV1_MD, CONV2_MD>>]
DirChain ==
    [convs |-> (CONV1_MD :> ConvNamedAsTwo @@ CONV2_MD :> ConvTwo
                @@ CONV3_MD :> ConvThree),
     walk |-> <<CONV3_MD, CONV1_MD, CONV2_MD>>]
DirChats ==
    [convs |-> (CHAT_MD :> ChatFile @@ PLAIN_MD :> PlainFile
                @@ CONV1_MD :> EmbedFile @@ NOTES_TXT :> NotesFile),
     walk |-> <<PLAIN_MD, CHAT_MD, NOTES_TXT, CONV1_MD>>]
\* two files of one conversation id: the file walked last wins
DirTwice(first, second) ==
    [convs |-> (CONV1_MD :> ConvOne @@ CONV2_MD :> ConvNamedAsTwo),
     walk |-> <<first, second>>]
ConversationDirs ==
    {DirEndToEnd, DirSameTitle, DirChain, DirChats,
     DirTwice(CONV1_MD, CONV2_MD), DirTwice(CONV2_MD, CONV1_MD)}

(***************************************************************************)
(* The state: the vault, the tool that runs and its local variables.       *)
(***************************************************************************)
VARIABLES
    artifacts,        \* <vault>/AI/Attachments/claude/artifacts: folder -> directory
    convs,            \* <vault>/AI/Conversations/claude: file name -> file
    walk,             \* the order os.walk yields the conversation files in
    tool,             \* "none", "migrate", "links" or "sanitize": what runs
    pc,               \* where the running main() stands
    dry_run,          \* "--dry-run" in sys.argv
    mig,              \* the local variables of migrate-artifacts.py's main()
    lnk,              \* the local variables of fix-artifact-links.py's main()
    summary,          \* the summary the last invocation printed, if it got there
    runs,             \* the invocations so far
    original,         \* the artifacts directory before the first invocation
    only_migrations,  \* every invocation so far was the Migrator without --dry-run
    name,             \* sanitize's argument
    result            \* what sanitize returned, call by call

vars == <<artifacts, convs, walk, tool, pc, dry_run, mig, lnk, summary, runs,
          original, only_migrations, name, result>>

\* how many invocations of the tools one behaviour holds
MaxRuns == 3

MigIdle ==
    [conv_titles |-> EmptyDict, conv_dates |-> EmptyDict, entries |-> <<>>,
     entry |-> <<>>, new_foldername |-> <<>>, art_files |-> <<>>, left |-> {},
     moved |-> 0, skipped |-> 0, file_renames |-> 0]
LnkIdle ==
    [link_map |-> <<>>, folders |-> <<>>, folder_name |-> <<>>, files |-> {},
     pending |-> <<>>, updated_files |-> 0, updated_links |-> 0]
NoSummary == [tool |-> "none", dry_run |-> FALSE, counts |-> <<>>]

Init ==
    /\ artifacts \in ArtifactTrees
    /\ \E dir \in ConversationDirs : convs = dir.convs /\ walk = dir.walk
    /\ tool = "none" /\ pc = "idle" /\ dry_run = FALSE
    /\ mig = MigIdle /\ lnk = LnkIdle
    /\ summary = NoSummary /\ runs = 0
    /\ original = artifacts /\ only_migrations = TRUE
    /\ name = <<>> /\ result = <<>>

(***************************************************************************)
(* migrate-artifacts.py, main()                                            *)
(***************************************************************************)

\* lines 108-127: the arguments, the conversation index, the counters, and
\* the listing that the folder loop goes through
MigrateStart(d) ==
    /\ tool = "none" /\ runs < MaxRuns
    /\ tool' = "migrate" /\ pc' = "folders" /\ dry_run' = d
    /\ \E index \in {build_conversation_index(convs, walk)} :
          mig' = [MigIdle EXCEPT !.conv_titles = index.titles,
                                 !.conv_dates = index.dates,
                                 !.entries = sorted(DOMAIN artifacts)]
    /\ runs' = runs + 1
    /\ only_migrations' = (only_migrations /\ ~d)
    /\ UNCHANGED <<artifacts, convs, walk, lnk, summary, original, name, result>>

\* lines 129-140: an entry that is no directory any more, is dated already,
\* or has no UUID name
FolderSkip ==
    /\ tool = "migrate" /\ pc = "folders" /\ mig.entries # <<>>
    /\ LET entry == Head(mig.entries)
       IN  \/ entry \notin DOMAIN artifacts
           \/ date_prefix_re(entry)
           \/ ~uuid_re(entry)
    /\ mig' = [mig EXCEPT !.entries = Tail(@)]
    /\ UNCHANGED <<artifacts, convs, walk, tool, pc, dry_run, lnk, summary, runs,
                   original, only_migrations, name, result>>

FolderIsCandidate(entry) ==
    entry \in DOMAIN artifacts /\ ~date_prefix_re(entry) /\ uuid_re(entry)

\* lines 142-149: no conversation for the folder
FolderNoConversation ==
    /\ tool = "migrate" /\ pc = "folders" /\ mig.entries # <<>>
    /\ FolderIsCandidate(Head(mig.entries))
    /\ Get(mig.conv_titles, Head(mig.entries), <<>>) = <<>>
    /\ mig' = [mig EXCEPT !.entries = Tail(@), !.skipped = @ + 1]
    /\ UNCHANGED <<artifacts, convs, walk, tool, pc, dry_run, lnk, summary, runs,
                   original, only_migrations, name, result>>

\* lines 142-158: the new folder name, and the listing of the folder
FolderEnter ==
    /\ tool = "migrate" /\ pc = "folders" /\ mig.entries # <<>>
    /\ FolderIsCandidate(Head(mig.entries))
    /\ LET entry == Head(mig.entries)
           conv_title == Get(mig.conv_titles, entry, <<>>)
           conv_date == Get(mig.conv_dates, entry, <<>>)
       IN  /\ conv_title # <<>>
           /\ mig' = [mig EXCEPT !.entries = Tail(@),
                                 !.entry = entry,
                                 !.new_foldername =
                                     NewFolderName(conv_title, conv_date),
                                 !.art_files = sorted(DOMAIN artifacts[entry])]
    /\ pc' = "files"
    /\ UNCHANGED <<artifacts, convs, walk, tool, dry_run, lnk, summary, runs,
                   original, only_migrations, name, result>>

\* lines 158-192: one artifact file of the folder
ArtifactFile ==
    /\ tool = "migrate" /\ pc = "files" /\ mig.art_files # <<>>
    /\ \E done \in {RenameArtifact(artifacts[mig.entry], Head(mig.art_files),
                                    dry_run)} :
          /\ artifacts' = [artifacts EXCEPT ![mig.entry] = done.dir]
          /\ mig' = [mig EXCEPT !.art_files = Tail(@),
                                !.skipped = @ + done.skipped,
                                !.file_renames = @ + done.file_renames]
    /\ UNCHANGED <<convs, walk, tool, pc, dry_run, lnk, summary, runs, original,
                   only_migrations, name, result>>

\* lines 194-214 but the merge loop: the folder keeps its name, is only
\* reported (--dry-run), is renamed, or the merge begins with its listing.
\* A sanitized title holds no path separator: new_folder is an entry of the
\* artifacts directory.
FolderMove ==
    /\ tool = "migrate" /\ pc = "files" /\ mig.art_files = <<>>
    /\ IF mig.entry = mig.new_foldername
       THEN pc' = "folders" /\ UNCHANGED <<artifacts, mig>>
       ELSE IF dry_run
       THEN /\ pc' = "folders"
            /\ mig' = [mig EXCEPT !.moved = @ + 1]
            /\ UNCHANGED artifacts
       ELSE IF mig.new_foldername \in DOMAIN artifacts
       THEN /\ pc' = "merge"
            /\ mig' = [mig EXCEPT !.left = DOMAIN artifacts[mig.entry]]
            /\ UNCHANGED artifacts
       ELSE /\ pc' = "folders"
            /\ artifacts' = RenameFolder(artifacts, mig.entry, mig.new_foldername)
            /\ mig' = [mig EXCEPT !.moved = @ + 1]
    /\ UNCHANGED <<convs, walk, tool, dry_run, lnk, summary, runs, original,
                   only_migrations, name, result>>

\* lines 201-205: one entry of the folder that is merged, in the order
\* os.listdir gave, which no rule fixes
MergeFile ==
    /\ tool = "migrate" /\ pc = "merge"
    /\ \E f \in mig.left :
          /\ artifacts' = MergeEntry(artifacts, mig.entry, mig.new_foldername, f)
          /\ mig' = [mig EXCEPT !.left = @ \ {f}]
    /\ UNCHANGED <<convs, walk, tool, pc, dry_run, lnk, summary, runs, original,
                   only_migrations, name, result>>

\* lines 206-214: the merged folder is removed when it is empty
MergeEnd ==
    /\ tool = "migrate" /\ pc = "merge" /\ mig.left = {}
    /\ artifacts' = RemoveIfEmpty(artifacts, mig.entry)
    /\ mig' = [mig EXCEPT !.moved = @ + 1]
    /\ pc' = "folders"
    /\ UNCHANGED <<convs, walk, tool, dry_run, lnk, summary, runs, original,
                   only_migrations, name, result>>

\* lines 216-222: the summary
MigrateDone ==
    /\ tool = "migrate" /\ pc = "folders" /\ mig.entries = <<>>
    /\ summary' = [tool |-> "migrate", dry_run |-> dry_run,
                   counts |-> <<mig.moved, mig.file_renames, mig.skipped>>]
    /\ tool' = "none" /\ pc' = "idle" /\ dry_run' = FALSE /\ mig' = MigIdle
    /\ UNCHANGED <<artifacts, convs, walk, lnk, runs, original, only_migrations,
                   name, result>>

(***************************************************************************)
(* fix-artifact-links.py, main()                                           *)
(***************************************************************************)

\* lines 53-65
LinksStart(d) ==
    /\ tool = "none" /\ runs < MaxRuns
    /\ tool' = "links" /\ pc' = "index" /\ dry_run' = d
    /\ lnk' = [LnkIdle EXCEPT !.folders = sorted(DOMAIN artifacts)]
    /\ runs' = runs + 1
    /\ only_migrations' = FALSE
    /\ UNCHANGED <<artifacts, convs, walk, mig, summary, original, name, result>>

\* lines 65-70: the next folder of the index loop, and its listing
IndexFolder ==
    /\ tool = "links" /\ pc = "index" /\ lnk.files = {} /\ lnk.folders # <<>>
    /\ lnk' = [lnk EXCEPT !.folders = Tail(@),
                          !.folder_name = Head(lnk.folders),
                          !.files = DOMAIN artifacts[Head(lnk.folders)]]
    /\ UNCHANGED <<artifacts, convs, walk, tool, pc, dry_run, mig, summary, runs,
                   original, only_migrations, name, result>>

\* lines 70-95: one file of the folder, in the order os.listdir gave
IndexFile ==
    /\ tool = "links" /\ pc = "index"
    /\ \E fname \in lnk.files :
          lnk' = [lnk EXCEPT
                     !.files = @ \ {fname},
                     !.link_map = IndexArtifact(@, lnk.folder_name, fname,
                                      artifacts[lnk.folder_name][fname])]
    /\ UNCHANGED <<artifacts, convs, walk, tool, pc, dry_run, mig, summary, runs,
                   original, only_migrations, name, result>>

\* lines 97-103: the index is built, the conversation pass begins
IndexDone ==
    /\ tool = "links" /\ pc = "index" /\ lnk.files = {} /\ lnk.folders = <<>>
    /\ pc' = "conversations"
    /\ lnk' = [lnk EXCEPT !.pending = walk]
    /\ UNCHANGED <<artifacts, convs, walk, tool, dry_run, mig, summary, runs,
                   original, only_migrations, name, result>>

\* lines 104-140: one conversation file
ConversationFile ==
    /\ tool = "links" /\ pc = "conversations" /\ lnk.pending # <<>>
    /\ \E fname \in {Head(lnk.pending)} :
       \E done \in {RewriteConversation(convs[fname].lines, lnk.link_map)} :
          IF ~EndsWith(fname, MD_SUFFIX) \/ ~convs[fname].readable
             \/ done.new_content = convs[fname].lines
          THEN /\ lnk' = [lnk EXCEPT !.pending = Tail(@)]
               /\ UNCHANGED convs
          ELSE /\ convs' = [convs EXCEPT
                               ![fname] = WriteBack(@, done.new_content, dry_run)]
               /\ lnk' = [lnk EXCEPT
                             !.pending = Tail(@),
                             !.updated_files = @ + 1,
                             !.updated_links = @ + done.file_changes]
    /\ UNCHANGED <<artifacts, walk, tool, pc, dry_run, mig, summary, runs,
                   original, only_migrations, name, result>>

\* line 143: the conversation pass is over, the artifact pass begins
ConversationsDone ==
    /\ tool = "links" /\ pc = "conversations" /\ lnk.pending = <<>>
    /\ pc' = "artifacts"
    /\ lnk' = [lnk EXCEPT !.folders = sorted(DOMAIN artifacts)]
    /\ UNCHANGED <<artifacts, convs, walk, tool, dry_run, mig, summary, runs,
                   original, only_migrations, name, result>>

\* lines 143-147: the next folder of the artifact pass, and its listing
ArtifactFolder ==
    /\ tool = "links" /\ pc = "artifacts" /\ lnk.files = {} /\ lnk.folders # <<>>
    /\ lnk' = [lnk EXCEPT !.folders = Tail(@),
                          !.folder_name = Head(lnk.folders),
                          !.files = DOMAIN artifacts[Head(lnk.folders)]]
    /\ UNCHANGED <<artifacts, convs, walk, tool, pc, dry_run, mig, summary, runs,
                   original, only_migrations, name, result>>

\* lines 147-171: one artifact file of the folder
ArtifactLinks ==
    /\ tool = "links" /\ pc = "artifacts"
    /\ \E fname \in lnk.files :
       \E file \in {artifacts[lnk.folder_name][fname]} :
       \E new_content \in {RewriteArtifact(file.lines, lnk.link_map)} :
          IF ~EndsWith(fname, MD_SUFFIX) \/ ~file.readable
             \/ new_content = file.lines
          THEN /\ lnk' = [lnk EXCEPT !.files = @ \ {fname}]
               /\ UNCHANGED artifacts
          ELSE /\ artifacts' =
                      [artifacts EXCEPT ![lnk.folder_name][fname] =
                          WriteBack(file, new_content, dry_run)]
               /\ lnk' = [lnk EXCEPT !.files = @ \ {fname},
                                     !.updated_files = @ + 1]
    /\ UNCHANGED <<convs, walk, tool, pc, dry_run, mig, summary, runs, original,
                   only_migrations, name, result>>

\* lines 173-178: the summary
LinksDone ==
    /\ tool = "links" /\ pc = "artifacts" /\ lnk.files = {} /\ lnk.folders = <<>>
    /\ summary' = [tool |-> "links", dry_run |-> dry_run,
                   counts |-> <<lnk.updated_files, lnk.updated_links>>]
    /\ tool' = "none" /\ pc' = "idle" /\ dry_run' = FALSE /\ lnk' = LnkIdle
    /\ UNCHANGED <<artifacts, convs, walk, mig, runs, original, only_migrations,
                   name, result>>

(***************************************************************************)
(* The process is ended from outside (section 5 of the specification: no   *)
(* cancellation but process termination), between two of its steps.        *)
(***************************************************************************)
Terminate ==
    /\ tool \in {"migrate", "links"}
    /\ tool' = "none" /\ pc' = "idle" /\ dry_run' = FALSE
    /\ mig' = MigIdle /\ lnk' = LnkIdle
    /\ summary' = NoSummary
    /\ UNCHANGED <<artifacts, convs, walk, runs, original, only_migrations,
                   name, result>>

Next ==
    \/ \E d \in BOOLEAN : MigrateStart(d)
    \/ FolderSkip
    \/ FolderNoConversation
    \/ FolderEnter
    \/ ArtifactFile
    \/ FolderMove
    \/ MergeFile
    \/ MergeEnd
    \/ MigrateDone
    \/ \E d \in BOOLEAN : LinksStart(d)
    \/ IndexFolder
    \/ IndexFile
    \/ IndexDone
    \/ ConversationFile
    \/ ConversationsDone
    \/ ArtifactFolder
    \/ ArtifactLinks
    \/ LinksDone
    \/ Terminate

Spec == Init /\ [][Next]_vars

(***************************************************************************)
(* sanitize on its own: every str of at most MaxLen characters over the    *)
(* characters it names, ordinary ones and the typographic quotes; the      *)
(* function is applied to its argument and then to its own result.         *)
(***************************************************************************)
MaxLen == 3
TypographicQuotes == {"U+2018", "U+2019", "U+201C", "U+201D"}
SanitizeChars == {"a", " ", "\t"} \cup ForbiddenChars \cup TypographicQuotes
Names == UNION {[1..n -> SanitizeChars] : n \in 0..MaxLen}

InitSanitize ==
    /\ name \in Names /\ result = <<>>
    /\ tool = "sanitize" /\ pc = "idle" /\ dry_run = FALSE
    /\ artifacts = EmptyDict /\ convs = EmptyDict /\ walk = <<>>
    /\ mig = MigIdle /\ lnk = LnkIdle
    /\ summary = NoSummary /\ runs = 0
    /\ original = artifacts /\ only_migrations = TRUE

SanitizeCall ==
    /\ tool = "sanitize" /\ Len(result) < 2
    /\ result' = Append(result, sanitize(IF result = <<>> THEN name
                                         ELSE result[Len(result)]))
    /\ UNCHANGED <<artifacts, convs, walk, tool, pc, dry_run, mig, lnk, summary,
                   runs, original, only_migrations, name>>

SpecSanitize == InitSanitize /\ [][SanitizeCall]_vars

(***************************************************************************)
(* The properties.                                                         *)
(***************************************************************************)

\* the conversation index a Migrator run builds in this state
ConversationIndex == build_conversation_index(convs, walk)
\* the folder name the Migrator moves folder entry to
TargetFolder(entry) ==
    NewFolderName(Get(ConversationIndex.titles, entry, <<>>),
                  Get(ConversationIndex.dates, entry, <<>>))

\* the last invocation was a whole run of the tool without --dry-run
CompletedMigration == summary.tool = "migrate" /\ ~summary.dry_run
CompletedLinks == summary.tool = "links" /\ ~summary.dry_run

\* the paths of the wikilinks of a line, in the order they stand in it
RECURSIVE LinkPaths(_)
LinkPaths(s) ==
    LET open == Find(s, <<"[", "[">>, 1)
        rest == Drop(s, open + 1)
        close == Find(rest, <<"]", "]">>, 1)
    IN  IF open = 0 THEN <<>>
        ELSE IF close = 0 THEN <<>>
        ELSE <<Take(rest, close - 1)>> \o LinkPaths(Drop(rest, close + 1))

\* the .md files of a directory that can be read
Documents(dir) ==
    {f \in DOMAIN dir : EndsWith(f, MD_SUFFIX) /\ dir[f].readable}

(***************************************************************************)
(* C1  Migrator idempotence.                                               *)
(***************************************************************************)

\* C1: a Migrator run without --dry-run that follows a whole Migrator run
\* without --dry-run changes nothing in the artifacts directory: no folder
\* and no file is renamed or moved by the second run.
C1_SecondMigrationChangesNothing ==
    [][(tool = "migrate" /\ ~dry_run /\ CompletedMigration)
           => artifacts' = artifacts]_vars

(***************************************************************************)
(* C2  No data loss on merge.                                              *)
(***************************************************************************)
MergeSource == artifacts[mig.entry]
MergeTarget == artifacts[mig.new_foldername]

\* what one step of a merge does to the two folders: every entry of the
\* destination stays as it is; an entry of the source whose name the
\* destination holds stays in the source as it is; any other entry of the
\* source is in exactly one of the two folders afterwards, as it was
MergeStep ==
    pc = "merge" =>
        /\ mig.new_foldername \in DOMAIN artifacts'
        /\ \A f \in DOMAIN MergeTarget :
              /\ f \in DOMAIN artifacts'[mig.new_foldername]
              /\ artifacts'[mig.new_foldername][f] = MergeTarget[f]
        /\ \A f \in DOMAIN MergeSource :
              IF f \in DOMAIN MergeTarget
              THEN /\ mig.entry \in DOMAIN artifacts'
                   /\ f \in DOMAIN artifacts'[mig.entry]
                   /\ artifacts'[mig.entry][f] = MergeSource[f]
              ELSE \/ /\ mig.entry \in DOMAIN artifacts'
                      /\ f \in DOMAIN artifacts'[mig.entry]
                      /\ artifacts'[mig.entry][f] = MergeSource[f]
                      /\ f \notin DOMAIN artifacts'[mig.new_foldername]
                   \/ /\ f \in DOMAIN artifacts'[mig.new_foldername]
                      /\ artifacts'[mig.new_foldername][f] = MergeSource[f]
                      /\ mig.entry \in DOMAIN artifacts'
                             => f \notin DOMAIN artifacts'[mig.entry]

\* the entries the merge loop is through with and that are still in the
\* source are the ones whose name the destination holds
MergeLeftovers ==
    pc = "merge" =>
        \A f \in DOMAIN MergeSource \ mig.left : f \in DOMAIN MergeTarget

\* C2 (amended): when the target folder of a UUID folder exists already, the
\* merge moves into it exactly the entries of the source whose name it does
\* not hold; an entry whose name it holds stays in the source folder, which
\* is then not removed; every file of the two folders exists afterwards with
\* its content, in the destination or (its name taken) in the source; no
\* file of the destination is overwritten.
C2_MergeMovesOnlyAbsentNames == [](MergeLeftovers) /\ [][MergeStep]_vars

\* a merge is through with the source: one file was moved, one stays behind
\* because the destination holds its name
C2_MergeWithLeftover ==
    /\ tool = "migrate" /\ pc = "merge" /\ mig.left = {}
    /\ T_ONLY_MD \in DOMAIN MergeSource
    /\ T_ONLY_MD \in DOMAIN MergeTarget
    /\ M_MD \in DOMAIN MergeTarget
    /\ M_MD \notin DOMAIN MergeSource

\* C2 as stated: after a whole migration without --dry-run, every file that
\* was in a UUID folder whose target folder exists is in that target folder,
\* and no UUID folder holds a name that its target folder holds too.
C2_EveryFileInDestination ==
    (tool = "none" /\ CompletedMigration /\ only_migrations) =>
        \A e \in DOMAIN original :
            (uuid_re(e) /\ TargetFolder(e) \in DOMAIN artifacts) =>
                /\ \A f \in DOMAIN original[e] :
                      \E g \in DOMAIN artifacts[TargetFolder(e)] :
                          artifacts[TargetFolder(e)][g] = original[e][f]
                /\ e \in DOMAIN artifacts =>
                      DOMAIN artifacts[e]
                          \cap DOMAIN artifacts[TargetFolder(e)] = {}

(***************************************************************************)
(* C3  The names a migration gives.                                        *)
(***************************************************************************)

\* C3: the folder 11111111-1111-1111-1111-111111111111 with draft.md
\* (aliases: [My Title, draft], create_time 2024-01-02T00:00:00Z,
\* version_number 2), whose conversation has aliases: [My Conversation] and
\* create_time 2024-01-01T00:00:00Z, is after a whole migration without
\* --dry-run the folder "2024-01-01 - My Conversation" holding
\* "2024-01-02 - My Title v2.md".
C3_EndToEndNames ==
    (/\ tool = "none" /\ CompletedMigration /\ only_migrations
     /\ original = TreeEndToEnd /\ convs = DirEndToEnd.convs) =>
        /\ END_TO_END_FOLDER \in DOMAIN artifacts
        /\ END_TO_END_FILE \in DOMAIN artifacts[END_TO_END_FOLDER]

(***************************************************************************)
(* C4  Link rewrite completeness.                                          *)
(***************************************************************************)

\* C4: when the Link Rewriter without --dry-run is through with a
\* conversation file, every wikilink of the file whose path was the old_link
\* of an entry of the index has that entry's new_link as its path, whatever
\* the entries and the order they are applied in.
C4_EveryLinkRewritten ==
    [][(/\ tool = "links" /\ ~dry_run /\ pc = "conversations"
        /\ lnk.pending # <<>> /\ tool' = "links") =>
           LET fname == Head(lnk.pending)
               before == convs[fname].lines
               after == convs'[fname].lines
           IN  (EndsWith(fname, MD_SUFFIX) /\ convs[fname].readable) =>
                   \A i \in 1..Len(before) :
                   \A j \in 1..Len(LinkPaths(before[i])) :
                   \A k \in 1..Len(lnk.link_map) :
                       LinkPaths(before[i])[j] = lnk.link_map[k][1] =>
                           /\ j <= Len(LinkPaths(after[i]))
                           /\ LinkPaths(after[i])[j] = lnk.link_map[k][2]]_vars

(***************************************************************************)
(* C5  --dry-run changes nothing.                                          *)
(***************************************************************************)

\* C5: no step of a run with --dry-run, of the Migrator or of the Link
\* Rewriter, changes the artifacts directory or the conversations directory:
\* the folders, the files of each folder, every name and every content stay.
C5_DryRunChangesNothing ==
    [][(tool # "none" /\ dry_run)
           => (artifacts' = artifacts /\ convs' = convs)]_vars

\* a Migrator preview that has reported a file rename and a folder move,
\* after a Link Rewriter preview that reported a file to update
C5_PreviewsReported ==
    /\ tool = "migrate" /\ dry_run
    /\ mig.file_renames > 0 /\ mig.moved > 0
    /\ summary.tool = "links" /\ summary.dry_run
    /\ summary.counts[1] > 0

(***************************************************************************)
(* C6  Legacy marker normalization.                                        *)
(***************************************************************************)

\* what a step of the Link Rewriter without --dry-run does to the markers:
\* a conversation file that is passed over stays as it is; in one that
\* holds "artifacts/" every legacy marker has become "![["; the artifact
\* pass leaves the markers of every artifact file
MarkerStep ==
    (tool = "links" /\ ~dry_run /\ tool' = "links") =>
        /\ (pc = "conversations" /\ lnk.pending # <<>>) =>
              LET fname == Head(lnk.pending)
                  before == convs[fname].lines
                  after == convs'[fname].lines
              IN  IF /\ fname \in Documents(convs)
                     /\ InContent(before, ARTIFACTS_MARK)
                  THEN /\ ~InContent(after, LEGACY_MARKER)
                       /\ CountInContent(after, EMBED_MARKER)
                              = CountInContent(before, EMBED_MARKER)
                                    + CountInContent(before, LEGACY_MARKER)
                  ELSE after = before
        /\ pc = "artifacts" =>
              \A folder \in DOMAIN artifacts : \A f \in DOMAIN artifacts[folder] :
                  CountInContent(artifacts'[folder][f].lines, LEGACY_MARKER)
                      = CountInContent(artifacts[folder][f].lines, LEGACY_MARKER)

\* after a whole run without --dry-run no conversation file that holds
\* "artifacts/" holds a legacy marker: a second run finds none to replace
MarkersGone ==
    CompletedLinks =>
        \A fname \in Documents(convs) :
            InContent(convs[fname].lines, ARTIFACTS_MARK)
                => ~InContent(convs[fname].lines, LEGACY_MARKER)

C7_UntitledFilesUntouched ==
    [][(tool = "migrate" /\ ~dry_run /\ pc = "files" /\ pc' = "files") =>
           \A f \in DOMAIN artifacts[mig.entry] :
               ArtifactTitle(parse_frontmatter(artifacts[mig.entry][f])) = <<>>
                   => /\ f \in DOMAIN artifacts'[mig.entry]
                      /\ artifacts'[mig.entry][f] = artifacts[mig.entry][f]]_vars

(***************************************************************************)
(* C8  Sanitization safety.                                                *)
(***************************************************************************)

\* C8: sanitize(s) holds none of the forbidden characters and none of the
\* typographic quotes, no two whitespace characters in a row, no space at
\* its beginning or end, and sanitize(sanitize(s)) = sanitize(s).
C8_SanitizeIsSafe ==
    /\ Len(result) >= 1 =>
          /\ \A i \in 1..Len(result[1]) :
                result[1][i] \notin ForbiddenChars \cup TypographicQuotes
          /\ \A i \in 1..(Len(result[1]) - 1) :
                ~(result[1][i] \in Whitespace /\ result[1][i + 1] \in Whitespace)
          /\ result[1] # <<>> =>
                (result[1][1] # " " /\ result[1][Len(result[1])] # " ")
    /\ Len(result) >= 2 => result[2] = result[1]

(***************************************************************************)
(* C9  A migration that was interrupted is run again.                      *)
(***************************************************************************)

\* C9: when the first Migrator run without --dry-run is ended somewhere and
\* the second one runs to its end, the artifacts directory is then the one a
\* first run that nothing interrupts leaves.
C9_RerunCompletesTheMigration ==
    [][(/\ tool = "migrate" /\ tool' = "none" /\ summary' # NoSummary
        /\ summary = NoSummary /\ runs = 2 /\ only_migrations) =>
           artifacts' = MigrateAll(original, ConversationIndex)]_vars

(***************************************************************************)
(* C10  Link Rewriter idempotence.                                         *)
(***************************************************************************)

\* C10: a Link Rewriter run without --dry-run that follows a whole Link
\* Rewriter run without --dry-run writes no file: every content stays as
\* the first run left it.
C10_SecondRewriteChangesNothing ==
    [][(tool = "links" /\ ~dry_run /\ CompletedLinks)
           => (convs' = convs /\ artifacts' = artifacts)]_vars

=============================================================================
